---------------------------- MODULE Spec2Model ----------------------------
(***************************************************************************)
(* Model of eserde_axum/src/details.rs: the RFC 9457 problem-details       *)
(* envelope, its serde_json serialization and its conversion into an HTTP  *)
(* response, with the fixed 500 fallback taken when serialization fails.   *)
(*                                                                         *)
(* A body is a sequence of JSON tokens.  A token is a record               *)
(* [t, s, n]: t is the token class ("punct", "str", "num", "null", "ws"),  *)
(* s the text of a punctuation mark or the content of a string literal,    *)
(* n the decimal digits of a number.  serde_json writes its output piece   *)
(* by piece into the BytesMut writer; one Write step appends one token.    *)
(***************************************************************************)
EXTENDS Integers, Sequences, FiniteSets, TLC

VARIABLES pc, via, input, self, status, buf, result, response

vars == <<pc, via, input, self, status, buf, result, response>>

(***************************************************************************)
(* Bounds of the model.                                                    *)
(***************************************************************************)
\* longest ValidationErrors.errors list that is enumerated
MaxErrors == 2
\* longest list of entries of a map-like custom extension
MaxEntries == 2

(***************************************************************************)
(* JSON tokens.                                                            *)
(***************************************************************************)
Tok(t, s, n) == [t |-> t, s |-> s, n |-> n]

P(c) == Tok("punct", c, <<>>)

S(str) == Tok("str", str, <<>>)

N(digits) == Tok("num", "", digits)

NULL == Tok("null", "null", <<>>)

\* a run of insignificant whitespace (line break and indentation)
WS == Tok("ws", " ", <<>>)

RECURSIVE Digits(_)
\* itoa: the decimal digits of an unsigned integer, most significant first
Digits(n) == IF n < 10 THEN <<n>> ELSE Append(Digits(n \div 10), n % 10)

RECURSIVE Concat(_)
\* the concatenation of a sequence of token sequences
Concat(ss) == IF ss = <<>> THEN <<>> ELSE Head(ss) \o Concat(Tail(ss))

(***************************************************************************)
(* Data model (details.rs 9-46).  Option<T> is [some, v]; all values of a  *)
(* type have the same record shape.                                        *)
(***************************************************************************)
None == [some |-> FALSE, v |-> ""]

Some(x) == [some |-> TRUE, v |-> x]

\* enum Source { Body { pointer }, Header { name } }
Source_Body(pointer) == [variant |-> "Body", pointer |-> pointer, name |-> ""]

Source_Header(name) == [variant |-> "Header", pointer |-> None, name |-> name]

\* struct ValidationError { detail, source }
ValidationError(detail, source) == [detail |-> detail, source |-> source]

\* Extension values.  Option<Extension> is one record:
\*   kind "none"        extensions = None
\*   kind "validation"  Some(ValidationErrors { errors })
\*   kind "map"         Some(a struct or map with the given entries); failAt = k > 0
\*                      means the Serialize impl of the k-th entry's value returns Err
\*   kind "seq"         Some(a value that is not a struct or map), which
\*                      serde's flatten refuses
NoExtension == [kind |-> "none", errors |-> <<>>, entries |-> <<>>, failAt |-> 0]

ValidationErrors(errors) ==
    [kind |-> "validation", errors |-> errors, entries |-> <<>>, failAt |-> 0]

MapExtension(entries, failAt) ==
    [kind |-> "map", errors |-> <<>>, entries |-> entries, failAt |-> failAt]

SeqExtension == [kind |-> "seq", errors |-> <<>>, entries |-> <<>>, failAt |-> 0]

\* struct ProblemDetails<Extension>
ProblemDetails(type_, st, title, detail, extensions) ==
    [type_ |-> type_, status |-> st, title |-> title, detail |-> detail,
     extensions |-> extensions]

(***************************************************************************)
(* serde_json serialization (compact formatter).                           *)
(***************************************************************************)
\* Source without #[serde(tag = "source")]: serde's default, externally tagged
\* representation, the variant name as the key of a nested object
Ser_Source_ExternallyTagged(src) ==
    IF src.variant = "Body"
    THEN <<P(","), S("body"), P(":"), P("{"), S("pointer"), P(":"),
           IF src.pointer.some THEN S(src.pointer.v) ELSE NULL, P("}")>>
    ELSE <<P(","), S("header"), P(":"), P("{"), S("name"), P(":"), S(src.name), P("}")>>

\* #[serde(tag = "source", rename_all = "snake_case")] enum Source, flattened
\* into its parent: the tag and the variant's fields as entries of the parent
Ser_Source(src) ==
    IF src.variant = "Body"
    THEN <<P(","), S("source"), P(":"), S("body"),
           P(","), S("pointer"), P(":"),
           IF src.pointer.some THEN S(src.pointer.v) ELSE NULL>>
    ELSE <<P(","), S("source"), P(":"), S("header"),
           P(","), S("name"), P(":"), S(src.name)>>

\* struct ValidationError { detail, #[serde(flatten)] source }
Ser_ValidationError(e) ==
    <<P("{"), S("detail"), P(":"), S(e.detail)>> \o Ser_Source(e.source) \o <<P("}")>>

\* the elements written last to first
Ser_Vec_Reversed(errors) ==
    <<P("[")>>
    \o Concat([i \in 1..Len(errors) |->
                 (IF i = 1 THEN <<>> ELSE <<P(",")>>)
                 \o Ser_ValidationError(errors[Len(errors) + 1 - i])])
    \o <<P("]")>>

\* Vec<ValidationError>: a JSON array, elements in order, comma separated
Ser_Vec(errors) ==
    <<P("[")>>
    \o Concat([i \in 1..Len(errors) |->
                 (IF i = 1 THEN <<>> ELSE <<P(",")>>) \o Ser_ValidationError(errors[i])])
    \o <<P("]")>>

\* struct ValidationErrors { errors }, flattened into its parent
Ser_ValidationErrors(ext) == <<P(","), S("errors"), P(":")>> \o Ser_Vec(ext.errors)

\* the k-th entry of a map-like extension: its key, then its value
Ser_Entry(ext, k) ==
    <<P(","), S(ext.entries[k][1]), P(":")>>
    \o (IF ext.failAt = k THEN <<>> ELSE <<S(ext.entries[k][2])>>)

\* number of entries of a map-like extension the serializer gets to
EntriesReached(ext) == IF ext.failAt = 0 THEN Len(ext.entries) ELSE ext.failAt

\* extensions without #[serde(flatten)]: the extension nested under its field name
Ser_extensions_Nested(ext) ==
    CASE ext.kind = "none" -> [ok |-> TRUE, toks |-> <<>>]
      [] ext.kind = "validation" ->
           [ok |-> TRUE,
            toks |-> <<P(","), S("extensions"), P(":"), P("{")>>
                     \o Tail(Ser_ValidationErrors(ext)) \o <<P("}")>>]
      [] ext.kind = "map" ->
           [ok |-> ext.failAt = 0,
            toks |-> <<P(","), S("extensions"), P(":"), P("{")>>
                     \o (IF ext.entries = <<>> THEN <<>>
                         ELSE Tail(Concat([k \in 1..EntriesReached(ext) |->
                                             Ser_Entry(ext, k)])))
                     \o (IF ext.failAt = 0 THEN <<P("}")>> ELSE <<>>)]
      [] OTHER -> [ok |-> FALSE, toks |-> <<>>]

\* #[serde(flatten)] #[serde(skip_serializing_if = "Option::is_none")] extensions:
\* what is written for the field, and whether it succeeded
Ser_extensions(ext) ==
    CASE ext.kind = "none" -> [ok |-> TRUE, toks |-> <<>>]
      [] ext.kind = "validation" -> [ok |-> TRUE, toks |-> Ser_ValidationErrors(ext)]
      [] ext.kind = "map" ->
           [ok |-> ext.failAt = 0,
            toks |-> Concat([k \in 1..EntriesReached(ext) |-> Ser_Entry(ext, k)])]
      [] OTHER -> [ok |-> FALSE, toks |-> <<>>]

\* #[derive(serde::Serialize)] struct ProblemDetails: everything
\* serde_json::to_writer writes, and whether it returned Ok
Ser_ProblemDetails(pd) ==
    LET e == Ser_extensions(pd.extensions)
    IN  [ok |-> e.ok,
         toks |-> <<P("{"), S("type"), P(":"), S(pd.type_),
                    P(","), S("status"), P(":"), N(Digits(pd.status)),
                    P(","), S("title"), P(":"), S(pd.title),
                    P(","), S("detail"), P(":"), S(pd.detail)>>
                  \o e.toks
                  \o (IF e.ok THEN <<P("}")>> ELSE <<>>)]

(***************************************************************************)
(* HTTP responses.  A response is [status, headers, body]; headers is a    *)
(* sequence of <<name, value>> pairs.                                      *)
(***************************************************************************)
CONTENT_TYPE == "content-type"

APPLICATION_PROBLEM_JSON == "application/problem+json"

APPLICATION_OCTET_STREAM == "application/octet-stream"

StatusCode_BAD_REQUEST == 400

StatusCode_INTERNAL_SERVER_ERROR == 500

\* pub(crate) const INTERNAL_SERVER_ERROR_PROBLEM: &[u8] = br#"{ ... }"#
INTERNAL_SERVER_ERROR_PROBLEM ==
    <<P("{"), WS,
      S("type"), P(":"), WS, S("internal_server_error"), P(","), WS,
      S("title"), P(":"), WS, S("Internal Server Error"), P(","), WS,
      S("detail"), P(":"), WS,
      S("Something went wrong when processing your request. Please try again later."),
      WS,
      S("status"), P(":"), WS, N(<<5, 0, 0>>), WS,
      P("}")>>

\* the lower limit taken exclusive
StatusCode_try_from_OffByOne(n) ==
    IF n > 100 /\ n < 1000 THEN [ok |-> TRUE, code |-> n] ELSE [ok |-> FALSE, code |-> 0]

\* StatusCode::try_from(u16): Ok for 100..=999, Err otherwise
StatusCode_try_from(n) ==
    IF n >= 100 /\ n < 1000 THEN [ok |-> TRUE, code |-> n] ELSE [ok |-> FALSE, code |-> 0]

\* the u16 used as the status code unchecked
LocalStatus_Unchecked(n) == n

\* let status = StatusCode::try_from(self.status).unwrap_or(INTERNAL_SERVER_ERROR)
LocalStatus(n) ==
    LET r == StatusCode_try_from(n)
    IN  IF r.ok THEN r.code ELSE StatusCode_INTERNAL_SERVER_ERROR

RECURSIVE RemoveHeader(_, _)
RemoveHeader(headers, name) ==
    IF headers = <<>> THEN <<>>
    ELSE IF Head(headers)[1] = name THEN RemoveHeader(Tail(headers), name)
    ELSE <<Head(headers)>> \o RemoveHeader(Tail(headers), name)

\* HeaderMap::insert: the value replaces every value the name had
HeaderInsert(headers, name, value) == Append(RemoveHeader(headers, name), <<name, value>>)

\* Bytes / &'static [u8] as a response: 200 OK, the body type's own content type
Body_into_response(body) ==
    [status |-> 200,
     headers |-> <<<<CONTENT_TYPE, APPLICATION_OCTET_STREAM>>>>,
     body |-> body]

\* (StatusCode, [(HeaderName, HeaderValue); 1], body).into_response(): the body's
\* response, then the header inserted, then the status set
Tuple_into_response(st, header, body) ==
    LET r == Body_into_response(body)
    IN  [r EXCEPT !.headers = HeaderInsert(r.headers, header[1], header[2]),
                  !.status = st]

\* pub(crate) const INTERNAL_SERVER_ERROR = (500, [(CONTENT_TYPE, ...)], PROBLEM)
INTERNAL_SERVER_ERROR ==
    [status |-> StatusCode_INTERNAL_SERVER_ERROR,
     header |-> <<CONTENT_TYPE, APPLICATION_PROBLEM_JSON>>,
     body |-> INTERNAL_SERVER_ERROR_PROBLEM]

\* the Ok arm without its header array: (status, buf.into_inner().freeze())
OkArm_BodyContentType(st, written) ==
    [Body_into_response(written) EXCEPT !.status = st]

\* Ok(()) => (status, [(CONTENT_TYPE, APPLICATION_PROBLEM_JSON)],
\*            buf.into_inner().freeze()).into_response()
OkArm(st, written) ==
    Tuple_into_response(st, <<CONTENT_TYPE, APPLICATION_PROBLEM_JSON>>, written)

\* the Err arm sending what the buffer holds instead of the constant
ErrArm_PartialOutput(st, written) ==
    Tuple_into_response(INTERNAL_SERVER_ERROR.status, INTERNAL_SERVER_ERROR.header, written)

\* Err(_) => INTERNAL_SERVER_ERROR.into_response()
ErrArm(st, written) ==
    Tuple_into_response(INTERNAL_SERVER_ERROR.status, INTERNAL_SERVER_ERROR.header,
                        INTERNAL_SERVER_ERROR.body)

(***************************************************************************)
(* InvalidRequest (details.rs 86-112).                                     *)
(***************************************************************************)
\* pub(crate) fn status() -> StatusCode
InvalidRequest_status == StatusCode_BAD_REQUEST

\* new with the title and detail strings exchanged
InvalidRequest_new_Swapped(errors) ==
    ProblemDetails("invalid_request", InvalidRequest_status,
        "The request is either malformed or doesn't match the expected schema",
        "The request is invalid", errors)

\* pub(crate) fn new(errors: ValidationErrors) -> Self
InvalidRequest_new(errors) ==
    ProblemDetails("invalid_request", InvalidRequest_status, "The request is invalid",
        "The request is either malformed or doesn't match the expected schema",
        errors)

\* pub(crate) fn into_inner(self) -> ProblemDetails<ValidationErrors>
InvalidRequest_into_inner(ir) == ir

(***************************************************************************)
(* Reading a body back: a JSON parser over tokens (RFC 8259 grammar for    *)
(* the values that occur: strings, numbers, null, arrays, objects).  A     *)
(* JSON value is [kind, s, n, items, members]; members is a sequence of    *)
(* [key, val] in document order.                                           *)
(***************************************************************************)
JValue(kind, s, n, items, members) ==
    [kind |-> kind, s |-> s, n |-> n, items |-> items, members |-> members]

JStr(s) == JValue("str", s, 0, <<>>, <<>>)

JNum(n) == JValue("num", "", n, <<>>, <<>>)

JNull == JValue("null", "", 0, <<>>, <<>>)

JArr(items) == JValue("arr", "", 0, items, <<>>)

JObj(members) == JValue("obj", "", 0, <<>>, members)

ParseFail == [ok |-> FALSE, next |-> 0, val |-> JNull]

ParseOk(next, val) == [ok |-> TRUE, next |-> next, val |-> val]

RECURSIVE DigitsValue(_)
\* the number a sequence of decimal digits denotes
DigitsValue(ds) ==
    IF ds = <<>> THEN 0 ELSE 10 * DigitsValue(SubSeq(ds, 1, Len(ds) - 1)) + ds[Len(ds)]

\* a JSON number has no leading zero
WellFormedNumber(ds) == Len(ds) >= 1 /\ (Len(ds) > 1 => ds[1] # 0)

\* insignificant whitespace removed
SkipWs(toks) == SelectSeq(toks, LAMBDA k : k.t # "ws")

IsPunct(toks, i, c) == i <= Len(toks) /\ toks[i].t = "punct" /\ toks[i].s = c

RECURSIVE ParseValue(_, _), ParseItems(_, _, _), ParseMembers(_, _, _)
\* value := string | number | null | '[' items ']' | '{' members '}'
ParseValue(toks, i) ==
    IF i > Len(toks) THEN ParseFail
    ELSE CASE toks[i].t = "str" -> ParseOk(i + 1, JStr(toks[i].s))
           [] toks[i].t = "num" ->
                IF WellFormedNumber(toks[i].n)
                THEN ParseOk(i + 1, JNum(DigitsValue(toks[i].n)))
                ELSE ParseFail
           [] toks[i].t = "null" -> ParseOk(i + 1, JNull)
           [] IsPunct(toks, i, "[") ->
                IF IsPunct(toks, i + 1, "]") THEN ParseOk(i + 2, JArr(<<>>))
                ELSE ParseItems(toks, i + 1, <<>>)
           [] IsPunct(toks, i, "{") ->
                IF IsPunct(toks, i + 1, "}") THEN ParseOk(i + 2, JObj(<<>>))
                ELSE ParseMembers(toks, i + 1, <<>>)
           [] OTHER -> ParseFail

\* items := value (',' value)*, up to and including the closing bracket
ParseItems(toks, i, acc) ==
    LET r == ParseValue(toks, i)
    IN  IF ~r.ok THEN ParseFail
        ELSE IF IsPunct(toks, r.next, ",")
             THEN ParseItems(toks, r.next + 1, Append(acc, r.val))
        ELSE IF IsPunct(toks, r.next, "]")
             THEN ParseOk(r.next + 1, JArr(Append(acc, r.val)))
        ELSE ParseFail

\* members := string ':' value (',' string ':' value)*, up to and including
\* the closing brace
ParseMembers(toks, i, acc) ==
    IF ~(i <= Len(toks) /\ toks[i].t = "str" /\ IsPunct(toks, i + 1, ":")) THEN ParseFail
    ELSE LET r == ParseValue(toks, i + 2)
             m == [key |-> toks[i].s, val |-> r.val]
         IN  IF ~r.ok THEN ParseFail
             ELSE IF IsPunct(toks, r.next, ",")
                  THEN ParseMembers(toks, r.next + 1, Append(acc, m))
             ELSE IF IsPunct(toks, r.next, "}")
                  THEN ParseOk(r.next + 1, JObj(Append(acc, m)))
             ELSE ParseFail

\* a body is a JSON document when one value spans all of it
ParseDocument(body) ==
    LET toks == SkipWs(body)
        r == ParseValue(toks, 1)
    IN  IF r.ok /\ r.next = Len(toks) + 1 THEN r ELSE ParseFail

\* the keys of an object, in document order
Keys(obj) == [i \in 1..Len(obj.members) |-> obj.members[i].key]

\* the positions of an object's members named key
Positions(obj, key) == {i \in 1..Len(obj.members) : obj.members[i].key = key}

\* an object has exactly one member named key, and its value is val
HasMember(obj, key, val) ==
    /\ Cardinality(Positions(obj, key)) = 1
    /\ \A i \in Positions(obj, key) : obj.members[i].val = val

\* the number that follows the first top-level "status" key of a body, read
\* without requiring the rest of the body to be well formed; -1 when there is none
BodyStatus(body) ==
    LET toks == SkipWs(body)
        Depth(i) ==
            Cardinality({j \in 1..(i - 1) : toks[j].t = "punct" /\ toks[j].s \in {"{", "["}})
            - Cardinality({j \in 1..(i - 1) : toks[j].t = "punct" /\ toks[j].s \in {"}", "]"}})
        at == {i \in 1..(Len(toks) - 2) :
                  /\ toks[i].t = "str" /\ toks[i].s = "status"
                  /\ Depth(i) = 1
                  /\ IsPunct(toks, i + 1, ":")
                  /\ toks[i + 2].t = "num"}
    IN  IF at = {} THEN -1
        ELSE DigitsValue(toks[(CHOOSE i \in at : \A j \in at : i <= j) + 2].n)

(***************************************************************************)
(* Inputs.                                                                 *)
(***************************************************************************)
\* u16 values around every boundary of the status ranges
StatusValues == {0, 99, 100, 400, 500, 599, 600, 999, 1000, 65535}

ErrorValues ==
    {ValidationError("must be a string", Source_Body(Some("/age"))),
     ValidationError("invalid JSON", Source_Body(None)),
     ValidationError("missing header", Source_Header("X-Request-Id"))}

SeqsUpTo(S_, n) == UNION {[1..k -> S_] : k \in 0..n}

ErrorLists == SeqsUpTo(ErrorValues, MaxErrors)

\* entries of a custom extension; "type" collides with a fixed key
EntryValues == {<<"trace_id", "abc">>, <<"instance", "/user">>, <<"type", "other">>}

EntryLists ==
    {es \in SeqsUpTo(EntryValues, MaxEntries) :
        \A i, j \in 1..Len(es) : es[i][1] = es[j][1] => i = j}

ExtensionValues ==
    {NoExtension, SeqExtension}
    \cup {ValidationErrors(es) : es \in ErrorLists}
    \cup UNION {{MapExtension(es, k) : k \in 0..Len(es)} : es \in EntryLists}

Envelopes ==
    {ProblemDetails("test_error", st, "Test Error", "This is a test error", ext) :
        st \in StatusValues, ext \in ExtensionValues}

NoResponse == [status |-> 0, headers |-> <<>>, body |-> <<>>]

NoEnvelope == ProblemDetails("", 0, "", "", NoExtension)

(***************************************************************************)
(* The state machine: one call of into_response at a time.                 *)
(***************************************************************************)
Init ==
    /\ pc = "idle"
    /\ via = "none"
    /\ input = NoExtension
    /\ self = NoEnvelope
    /\ status = 0
    /\ buf = <<>>
    /\ result = "none"
    /\ response = NoResponse

\* entry of ProblemDetails::into_response: lines 53 and 57
Enter(pd) ==
    /\ self' = pd
    /\ status' = LocalStatus(pd.status)
    /\ buf' = <<>>
    /\ result' = "none"
    /\ response' = NoResponse
    /\ pc' = "to_writer"

\* <ProblemDetails<Extension> as IntoResponse>::into_response(pd)
ProblemDetails_into_response ==
    /\ pc = "idle"
    /\ \E pd \in Envelopes :
         /\ via' = "ProblemDetails"
         /\ input' = pd.extensions
         /\ Enter(pd)

\* <InvalidRequest as IntoResponse>::into_response(InvalidRequest::new(errors))
InvalidRequest_into_response ==
    /\ pc = "idle"
    /\ \E es \in ErrorLists :
         /\ via' = "InvalidRequest"
         /\ input' = ValidationErrors(es)
         /\ Enter(InvalidRequest_into_inner(InvalidRequest_new(ValidationErrors(es))))

\* serde_json::to_writer(&mut buf, &self) writes its next piece
Write ==
    /\ pc = "to_writer"
    /\ Len(buf) < Len(Ser_ProblemDetails(self).toks)
    /\ buf' = Append(buf, Ser_ProblemDetails(self).toks[Len(buf) + 1])
    /\ UNCHANGED <<pc, via, input, self, status, result, response>>

\* serde_json::to_writer returns Ok(()): the first match arm
MatchOk ==
    /\ pc = "to_writer"
    /\ Len(buf) = Len(Ser_ProblemDetails(self).toks)
    /\ Ser_ProblemDetails(self).ok
    /\ result' = "Ok"
    /\ response' = OkArm(status, buf)
    /\ pc' = "returned"
    /\ UNCHANGED <<via, input, self, status, buf>>

\* serde_json::to_writer returns Err(_): the second match arm
MatchErr ==
    /\ pc = "to_writer"
    /\ Len(buf) = Len(Ser_ProblemDetails(self).toks)
    /\ ~Ser_ProblemDetails(self).ok
    /\ result' = "Err"
    /\ response' = ErrArm(status, buf)
    /\ pc' = "returned"
    /\ UNCHANGED <<via, input, self, status, buf>>

\* the response is handed to the caller; self and buf are dropped
Return ==
    /\ pc = "returned"
    /\ pc' = "idle"
    /\ via' = "none"
    /\ input' = NoExtension
    /\ self' = NoEnvelope
    /\ status' = 0
    /\ buf' = <<>>
    /\ result' = "none"
    /\ response' = NoResponse

Next ==
    \/ ProblemDetails_into_response
    \/ InvalidRequest_into_response
    \/ Write
    \/ MatchOk
    \/ MatchErr
    \/ Return

Spec == Init /\ [][Next]_vars

(***************************************************************************)
(* Properties.                                                             *)
(***************************************************************************)
Returned == pc = "returned"

FixedKeys == <<"type", "status", "title", "detail">>

Range(f) == {f[i] : i \in DOMAIN f}

\* the top-level keys an extension value has, in field order
ExtensionKeys(ext) ==
    CASE ext.kind = "validation" -> <<"errors">>
      [] ext.kind = "map" -> [k \in 1..Len(ext.entries) |-> ext.entries[k][1]]
      [] OTHER -> <<>>

\* the whole of into_response as one function of the envelope
Render(pd) ==
    IF Ser_ProblemDetails(pd).ok
    THEN OkArm(LocalStatus(pd.status), Ser_ProblemDetails(pd).toks)
    ELSE ErrArm(LocalStatus(pd.status), Ser_ProblemDetails(pd).toks)

\* the "errors" member of a parsed body (JNull when there is none)
ErrorsMember(obj) ==
    IF Positions(obj, "errors") = {} THEN JNull
    ELSE obj.members[CHOOSE i \in Positions(obj, "errors") : TRUE].val

ContentTypes(r) == {i \in 1..Len(r.headers) : r.headers[i][1] = CONTENT_TYPE}

\* C1: when serialization succeeds and the envelope's status is in 100..599,
\* the response's status code is the envelope's status.
C1_ValidStatusIsStatusLine ==
    (Returned /\ result = "Ok" /\ self.status \in 100..599)
        => response.status = self.status

C1_Witness ==
    /\ Returned /\ result = "Ok"
    /\ self.status = 400 /\ response.status = 400

\* C2 as stated: every status outside 100..599 gives a response with status 500.
C2_OutsideRangeIs500 ==
    (Returned /\ self.status \notin 100..599) => response.status = 500

\* C2 amended: a status in 0..99 or 1000..65535 gives a response with status
\* 500; a status in 600..999 is accepted by StatusCode::try_from and, when
\* serialization succeeds, is the response's status.
C2_RejectedStatusIs500 ==
    Returned =>
        /\ (self.status < 100 \/ self.status > 999) => response.status = 500
        /\ (result = "Ok" /\ self.status \in 600..999) => response.status = self.status

C2_Witness ==
    /\ Returned /\ result = "Ok"
    /\ self.status = 65535 /\ response.status = 500

\* C3: in every response the number of the body's "status" member is the
\* response's status code.
C3_BodyStatusIsStatusLine ==
    Returned => BodyStatus(response.body) = response.status

\* C4: when serialization fails, whatever the envelope's status and however
\* much was written, the response is 500 with the one problem+json content
\* type and the body is exactly INTERNAL_SERVER_ERROR_PROBLEM, with nothing of
\* the envelope's own text in it.
C4_FailureGivesFallback ==
    (Returned /\ result = "Err") =>
        /\ response.status = 500
        /\ response.headers = <<<<"content-type", "application/problem+json">>>>
        /\ response.body = INTERNAL_SERVER_ERROR_PROBLEM
        /\ response.body # buf
        /\ \A i \in 1..Len(response.body) :
              response.body[i] \notin {S(self.type_), S(self.title), S(self.detail)}

C4_Witness ==
    /\ Returned /\ result = "Err"
    /\ self.status = 400
    /\ Len(buf) > 20
    /\ response.status = 500

\* C5: the fallback body is a well-formed JSON document, one flat object with
\* exactly the members type, title, detail and status = 500.
C5_FallbackBodyIsJson ==
    (Returned /\ result = "Err") =>
        LET d == ParseDocument(response.body)
        IN  /\ d.ok
            /\ d.val.kind = "obj"
            /\ Len(d.val.members) = 4
            /\ HasMember(d.val, "type", JStr("internal_server_error"))
            /\ HasMember(d.val, "title", JStr("Internal Server Error"))
            /\ HasMember(d.val, "detail",
                 JStr("Something went wrong when processing your request. Please try again later."))
            /\ HasMember(d.val, "status", JNum(500))

\* C6: every response carries exactly one Content-Type header, and it is
\* application/problem+json.
C6_OneContentType ==
    Returned =>
        /\ Cardinality(ContentTypes(response)) = 1
        /\ \A i \in ContentTypes(response) :
              response.headers[i][2] = "application/problem+json"

C6_Witness ==
    /\ Returned /\ result = "Ok" /\ via = "InvalidRequest"
    /\ response.headers = <<<<"content-type", "application/problem+json">>>>

\* C7: a successfully serialized body is one flat JSON object whose keys are
\* type, status, title, detail followed by the extension's own top-level keys
\* (none when extensions is None), with the extension's values at the top
\* level, no "extensions" key, and no key twice when the extension's keys are
\* disjoint from the fixed ones.
C7_FlatObject ==
    (Returned /\ result = "Ok") =>
        LET d == ParseDocument(response.body)
            ext == self.extensions
            keys == Keys(d.val)
        IN  /\ d.ok
            /\ d.val.kind = "obj"
            /\ keys = FixedKeys \o ExtensionKeys(ext)
            /\ "extensions" \notin Range(keys)
            /\ ext.kind = "none" => Range(keys) = Range(FixedKeys) /\ Len(keys) = 4
            /\ d.val.members[1].val = JStr(self.type_)
            /\ d.val.members[2].val = JNum(self.status)
            /\ d.val.members[3].val = JStr(self.title)
            /\ d.val.members[4].val = JStr(self.detail)
            /\ ext.kind = "map" =>
                  \A k \in 1..Len(ext.entries) :
                      d.val.members[4 + k] =
                          [key |-> ext.entries[k][1], val |-> JStr(ext.entries[k][2])]
            /\ ext.kind = "validation" => d.val.members[5].val.kind = "arr"
            /\ Range(ExtensionKeys(ext)) \cap Range(FixedKeys) = {} =>
                  \A i, j \in 1..Len(keys) : keys[i] = keys[j] => i = j

C7_Witness ==
    /\ Returned /\ result = "Ok"
    /\ self.extensions.kind = "map"
    /\ Len(self.extensions.entries) = 2
    /\ Range(ExtensionKeys(self.extensions)) \cap Range(FixedKeys) = {}
    /\ Len(Keys(ParseDocument(response.body).val)) = 6

\* C8: InvalidRequest::new(e).into_inner() is the envelope with the fixed
\* type, status 400 = InvalidRequest::status(), title and detail, and
\* extensions = Some(e); its response is the one rendering that envelope
\* gives, with status code 400.
C8_InvalidRequestEnvelope ==
    via = "InvalidRequest" =>
        /\ self = [type_ |-> "invalid_request",
                   status |-> 400,
                   title |-> "The request is invalid",
                   detail |-> "The request is either malformed or doesn't match the expected schema",
                   extensions |-> input]
        /\ self.status = InvalidRequest_status
        /\ Returned => /\ response = Render(self)
                       /\ response.status = 400

C8_Witness ==
    /\ Returned /\ via = "InvalidRequest"
    /\ Len(input.errors) = 2
    /\ self.extensions = input
    /\ response.status = 400

\* C9: each element of "errors" is one flat object: detail, source = "body"
\* and pointer (a string or null) for Source::Body; detail, source = "header"
\* and name for Source::Header; nothing else and nothing nested.
C9_ValidationErrorShape ==
    (Returned /\ result = "Ok" /\ self.extensions.kind = "validation") =>
        LET d == ParseDocument(response.body)
            items == ErrorsMember(d.val).items
            errors == self.extensions.errors
        IN  /\ d.ok
            /\ \A i \in (1..Len(errors)) \cap (1..Len(items)) :
                 LET o == items[i]
                     src == errors[i].source
                 IN  /\ o.kind = "obj"
                     /\ Len(o.members) = 3
                     /\ HasMember(o, "detail", JStr(errors[i].detail))
                     /\ src.variant = "Body" =>
                           /\ HasMember(o, "source", JStr("body"))
                           /\ HasMember(o, "pointer",
                                IF src.pointer.some THEN JStr(src.pointer.v) ELSE JNull)
                           /\ Positions(o, "name") = {}
                     /\ src.variant = "Header" =>
                           /\ HasMember(o, "source", JStr("header"))
                           /\ HasMember(o, "name", JStr(src.name))
                           /\ Positions(o, "pointer") = {}

C9_Witness ==
    /\ Returned /\ result = "Ok" /\ self.extensions.kind = "validation"
    /\ Len(self.extensions.errors) = 2
    /\ self.extensions.errors[1].source.variant = "Header"
    /\ self.extensions.errors[2].source = Source_Body(None)
    /\ Len(ErrorsMember(ParseDocument(response.body).val).items) = 2

\* C10: a rendered InvalidRequest has a top-level "errors" array with one
\* element per input ValidationError, the i-th element being the i-th input,
\* and status 400; the empty list renders "errors": [].
C10_ErrorsInOrder ==
    (Returned /\ via = "InvalidRequest") =>
        LET d == ParseDocument(response.body)
            arr == ErrorsMember(d.val)
            errors == input.errors
        IN  /\ d.ok
            /\ Cardinality(Positions(d.val, "errors")) = 1
            /\ arr.kind = "arr"
            /\ Len(arr.items) = Len(errors)
            /\ \A i \in 1..Len(errors) :
                  /\ arr.items[i] = ParseDocument(Ser_ValidationError(errors[i])).val
                  /\ HasMember(arr.items[i], "detail", JStr(errors[i].detail))
            /\ HasMember(d.val, "status", JNum(400))
            /\ response.status = 400

C10_Witness ==
    /\ Returned /\ via = "InvalidRequest"
    /\ Len(input.errors) = 2
    /\ input.errors[1] # input.errors[2]
    /\ Len(ErrorsMember(ParseDocument(response.body).val).items) = 2

=============================================================================
